---- MODULE Spec2Model ----
(***************************************************************************)
(* Model of the music recommender's orchestration layer:                   *)
(*   - load_user_artists          (src/music_data.py)                      *)
(*   - ArtistRetriever            (src/music_data.py)                      *)
(*   - ImplicitRecommender        (src/reccommender.py)                    *)
(* The factorization engine (the implicit library) is an external          *)
(* collaborator: its fit and recommend calls are nondeterministic choices  *)
(* over the outcomes a collaborator can produce (return or raise).         *)
(***************************************************************************)
EXTENDS Integers, Sequences, FiniteSets, TLC

VARIABLES
    user_artists_file,    \* the file handed to load_user_artists
    artists_df,           \* ArtistRetriever._artists_df
    user_artists_matrix,  \* ImplicitRecommender.user_artists_matrix
    implicit_model,       \* the matrix the collaborator's trained state was produced from
    fit_called,           \* history: some fit call has been issued
    fit_completed,        \* history: some fit call has returned normally
    ret                   \* outcome of the last call: what the caller observes

vars == <<user_artists_file, artists_df, user_artists_matrix, implicit_model,
          fit_called, fit_completed, ret>>

----------------------------------------------------------------------------
(* Bounds of the model *)

MaxUser == 1          \* user ids in interaction files: 0..MaxUser
MaxArtist == 1        \* artist ids in files: 0..MaxArtist
MaxWeight == 2        \* weights in interaction files: 0..MaxWeight
MaxRows == 2          \* data rows of an interactions file
MaxCatalogRows == 2   \* data rows of an artists file
MaxK == 2             \* pairs the collaborator may return

----------------------------------------------------------------------------
(* Python values *)

None == [none |-> TRUE]

Raise(exc, msg) == [exc |-> exc, msg |-> msg, kind |-> "raise"]

Return(value) == [kind |-> "return", value |-> value]

Str(s) == [s |-> s, type |-> "str"]

Series(values) == [type |-> "Series", values |-> values]

NoCall == [op |-> "none"]

\* every sequence over S of length at most n
RECURSIVE SeqsUpTo(_, _)
SeqsUpTo(S, n) ==
    IF n = 0 THEN {<<>>}
    ELSE LET shorter == SeqsUpTo(S, n - 1)
         IN shorter \cup {Append(s, x) : s \in shorter, x \in S}

Range(s) == {s[i] : i \in DOMAIN s}

Max(S) == CHOOSE m \in S : \A x \in S : x <= m

----------------------------------------------------------------------------
(* Files *)

Missing == [exists |-> FALSE]

File(columns, rows) == [exists |-> TRUE, columns |-> columns, rows |-> rows]

InteractionRecords ==
    [userID : 0..MaxUser, artistID : 0..MaxArtist, weight : 0..MaxWeight]

UserArtistsFiles ==
    {Missing, File({"userID", "artistID"}, <<>>)}
    \cup {File({"userID", "artistID", "weight"}, rows) :
            rows \in SeqsUpTo(InteractionRecords, MaxRows)}

Names == {"Alpha", "Beta"}

ArtistRecords == [id : 0..MaxArtist, name : Names]

ArtistsFiles ==
    {Missing, File({"id"}, <<>>)}
    \cup {File({"id", "name"}, rows) :
            rows \in SeqsUpTo(ArtistRecords, MaxCatalogRows)}

----------------------------------------------------------------------------
(* load_user_artists *)

\* sp.coo_matrix((data, (row, col))): the shape is inferred from the indices
coo_matrix(data, row, col) ==
    [shape |-> <<Max(Range(row)) + 1, Max(Range(col)) + 1>>,
     data |-> data, row |-> row, col |-> col]

\* a conversion that keeps the last entry of a coordinate instead of adding
RECURSIVE keep_last_duplicate(_, _)
keep_last_duplicate(coo, k) ==
    IF k = 0
    THEN [u \in 1..coo.shape[1] |-> [a \in 1..coo.shape[2] |-> 0]]
    ELSE [keep_last_duplicate(coo, k - 1) EXCEPT
            ![coo.row[k] + 1][coo.col[k] + 1] = coo.data[k]]

\* tocsr accumulates the first k coordinate entries into dense cells; the
\* cell of user u and artist a is cells[u + 1][a + 1]
RECURSIVE sum_duplicates(_, _)
sum_duplicates(coo, k) ==
    IF k = 0
    THEN [u \in 1..coo.shape[1] |-> [a \in 1..coo.shape[2] |-> 0]]
    ELSE [sum_duplicates(coo, k - 1) EXCEPT
            ![coo.row[k] + 1][coo.col[k] + 1] = @ + coo.data[k]]

tocsr(coo) ==
    [shape |-> coo.shape, cells |-> sum_duplicates(coo, Len(coo.data))]

load_user_artists(file) ==
    IF ~file.exists
    THEN Raise("FileNotFoundError", "File not found")
    ELSE IF ~({"userID", "artistID", "weight"} \subseteq file.columns)
    THEN Raise("ValueError", "Expected columns: userID, artistID, weight")
    ELSE IF Len(file.rows) = 0
    THEN Raise("ValueError", "cannot infer dimensions from zero sized index arrays")
    ELSE LET df == file.rows
             coo == coo_matrix([i \in DOMAIN df |-> df[i].weight],
                               [i \in DOMAIN df |-> df[i].userID],
                               [i \in DOMAIN df |-> df[i].artistID])
         IN Return(tocsr(coo))

----------------------------------------------------------------------------
(* ArtistRetriever *)

\* df.set_index("id"): every row is kept, in file order, labelled by its id
set_index(rows) ==
    [name |-> [i \in DOMAIN rows |-> rows[i].name],
     index |-> [i \in DOMAIN rows |-> rows[i].id]]

\* outcome of load_artists: the exception raised, or the new _artists_df
load_artists(file) ==
    IF ~file.exists
    THEN Raise("FileNotFoundError", "File not found")
    ELSE IF ~({"id", "name"} \subseteq file.columns)
    THEN Raise("ValueError", "Expected columns: id, name")
    ELSE Return(set_index(file.rows))

RECURSIVE Select(_, _, _)
Select(df, label, k) ==
    IF k = 0 THEN <<>>
    ELSE IF df.index[k] = label
         THEN Append(Select(df, label, k - 1), df.name[k])
         ELSE Select(df, label, k - 1)

\* df.loc[label, "name"]: a scalar for a label carried by one row, a Series
\* of every matching row's name for a label carried by several rows
loc(df, label) ==
    LET hits == Select(df, label, Len(df.index))
    IN IF Len(hits) = 1 THEN Str(hits[1]) ELSE Series(hits)

Placeholder(artist_id) ==
    [s |-> "Unknown Artist (ID: {artist_id})", type |-> "str", artist_id |-> artist_id]

get_artist_name_from_id(df, artist_id) ==
    IF df = None
    THEN Raise("ValueError", "Artist data not loaded. Call load_artists() first.")
    ELSE IF artist_id \notin Range(df.index)
    THEN Return(Placeholder(artist_id))
    ELSE Return(loc(df, artist_id))

----------------------------------------------------------------------------
(* ImplicitRecommender *)

\* the interaction files the engine's matrices are built from
SampleInteractions ==
    {<<[userID |-> 0, artistID |-> 0, weight |-> 1]>>,
     <<[userID |-> 1, artistID |-> 1, weight |-> 1],
       [userID |-> 1, artistID |-> 1, weight |-> 2]>>}

FitInputs ==
    {load_user_artists(File({"userID", "artistID", "weight"}, rows)).value :
        rows \in SampleInteractions}

\* the artists files the engine's retriever is loaded from
SampleArtistsFiles ==
    {File({"id", "name"}, <<[id |-> 0, name |-> "Alpha"]>>),
     File({"id", "name"}, <<[id |-> 1, name |-> "Beta"], [id |-> 0, name |-> "Alpha"]>>)}

MaxRowCount == Max({m.shape[1] : m \in FitInputs})

UserIds == (0 - MaxRowCount - 1)..MaxRowCount

\* requested top-n: negative, zero and positive
TopNs == {0 - 1, 0, 2}

\* what the collaborator's recommend may do: raise, or return parallel
\* arrays of candidate ids and scores
ScoredPairs == {<<0, 9>>, <<1, 4>>, <<1, 9>>}

ScoreOutcomes ==
    {Raise("Exception", "scoring failed")}
    \cup {Return([ids |-> [i \in DOMAIN s |-> s[i][1]],
                  scores |-> [i \in DOMAIN s |-> s[i][2]]]) :
            s \in SeqsUpTo(ScoredPairs, MaxK)}

NotCalled == [kind |-> "not called"]

\* what the collaborator's fit may do
TrainOutcomes == {Return(None), Raise("Exception", "training failed")}

\* a fit that never assigns the attribute
matrix_not_stored(old, new) == old

\* fit, line 44: the attribute is assigned before the collaborator trains
stored_matrix(old, new) == new

\* the collaborator's trained state after implicit_model.fit(matrix)
trained_state(old, matrix, train) ==
    IF train.kind = "return" THEN matrix ELSE old

\* csr_matrix.__getitem__ with an integer row: a negative index counts from
\* the end, an index outside [-rows, rows) raises IndexError
getrow(matrix, user_id) ==
    LET rows == matrix.shape[1]
    IN IF user_id < 0 - rows \/ user_id >= rows
       THEN Raise("IndexError", "index out of range")
       ELSE LET u == IF user_id < 0 THEN user_id + rows ELSE user_id
            IN Return(matrix.cells[u + 1])

\* a comprehension that walks the returned ids backwards
resolve_all_reversed(df, ids) ==
    [i \in DOMAIN ids |-> get_artist_name_from_id(df, ids[Len(ids) + 1 - i])]

\* the list comprehension of lines 72-75: one lookup per returned id
resolve_all(df, ids) ==
    [i \in DOMAIN ids |-> get_artist_name_from_id(df, ids[i])]

\* a handler that re-raises what it caught
except_reraise(e) == e

\* lines 76-78
except_handler(e) == Return([scores |-> <<>>, artists |-> <<>>])

\* does the collaborator get called: lines 60-70
calls_model(matrix, user_id) ==
    /\ matrix # None
    /\ user_id < matrix.shape[1]
    /\ getrow(matrix, user_id).kind = "return"

\* lines 68-81, given what the collaborator does when called
try_block(matrix, df, user_id, scored) ==
    LET row == getrow(matrix, user_id)
    IN IF row.kind = "raise" THEN except_handler(row)
       ELSE IF scored.kind = "raise" THEN except_handler(scored)
       ELSE LET looked == resolve_all(df, scored.value.ids)
                failed == {i \in DOMAIN looked : looked[i].kind = "raise"}
            IN IF failed # {}
               THEN except_handler(looked[CHOOSE i \in failed : \A j \in failed : i <= j])
               ELSE Return([scores |-> scored.value.scores,
                            artists |-> [i \in DOMAIN looked |-> looked[i].value]])

out_of_bounds(matrix, user_id) == user_id >= matrix.shape[1]

recommend(matrix, df, user_id, scored) ==
    IF matrix = None
    THEN Raise("ValueError", "Model has not been fitted yet.")
    ELSE IF out_of_bounds(matrix, user_id)
    THEN Raise("IndexError", "user_id is out of bounds.")
    ELSE try_block(matrix, df, user_id, scored)

----------------------------------------------------------------------------
(* Actions *)

LoadUserArtists ==
    /\ ret' = [op |-> "load_user_artists", out |-> load_user_artists(user_artists_file)]
    /\ UNCHANGED <<user_artists_file, artists_df, user_artists_matrix,
                   implicit_model, fit_called, fit_completed>>

LoadArtists(file) ==
    LET out == load_artists(file)
    IN /\ artists_df' = IF out.kind = "return" THEN out.value ELSE artists_df
       /\ ret' = [op |-> "load_artists",
                  out |-> IF out.kind = "return" THEN Return(None) ELSE out]
       /\ UNCHANGED <<user_artists_file, user_artists_matrix, implicit_model,
                      fit_called, fit_completed>>

GetArtistName(artist_id) ==
    /\ ret' = [op |-> "get_artist_name_from_id", artist_id |-> artist_id,
               out |-> get_artist_name_from_id(artists_df, artist_id)]
    /\ UNCHANGED <<user_artists_file, artists_df, user_artists_matrix,
                   implicit_model, fit_called, fit_completed>>

Fit(matrix, train) ==
    /\ user_artists_matrix' = stored_matrix(user_artists_matrix, matrix)
    /\ implicit_model' = trained_state(implicit_model, matrix, train)
    /\ fit_called' = TRUE
    /\ fit_completed' = (fit_completed \/ train.kind = "return")
    /\ ret' = [op |-> "fit", matrix |-> matrix, out |-> train]
    /\ UNCHANGED <<user_artists_file, artists_df>>

Recommend(user_id, n, scored) ==
    /\ ret' = [op |-> "recommend", n |-> n, user_id |-> user_id,
               scored |-> IF calls_model(user_artists_matrix, user_id)
                          THEN scored ELSE NotCalled,
               out |-> recommend(user_artists_matrix, artists_df, user_id, scored)]
    /\ UNCHANGED <<user_artists_file, artists_df, user_artists_matrix,
                   implicit_model, fit_called, fit_completed>>

----------------------------------------------------------------------------
(* Specifications *)

InitEngine ==
    /\ artists_df = None
    /\ user_artists_matrix = None
    /\ implicit_model = None
    /\ fit_called = FALSE
    /\ fit_completed = FALSE
    /\ ret = NoCall

\* the recommender with its retriever and collaborator
Init ==
    /\ user_artists_file = Missing
    /\ InitEngine

Next ==
    \/ \E file \in SampleArtistsFiles : LoadArtists(file)
    \/ \E matrix \in FitInputs, train \in TrainOutcomes : Fit(matrix, train)
    \/ \E user_id \in UserIds, n \in TopNs, scored \in ScoreOutcomes :
          Recommend(user_id, n, scored)

Spec == Init /\ [][Next]_vars

\* the artist retriever alone, over every artists file within the bounds
NextCatalog ==
    \/ \E file \in ArtistsFiles : LoadArtists(file)
    \/ \E artist_id \in 0..(MaxArtist + 1) : GetArtistName(artist_id)

SpecCatalog == Init /\ [][NextCatalog]_vars

\* load_user_artists applied to every interactions file within the bounds
InitLoader ==
    /\ user_artists_file \in UserArtistsFiles
    /\ InitEngine

NextLoader == LoadUserArtists

SpecLoader == InitLoader /\ [][NextLoader]_vars

----------------------------------------------------------------------------
(* Vocabulary of the properties *)

NotFittedError == Raise("ValueError", "Model has not been fitted yet.")

OutOfRangeError == Raise("IndexError", "user_id is out of bounds.")

NotLoadedError == Raise("ValueError", "Artist data not loaded. Call load_artists() first.")

EmptyResult == Return([scores |-> <<>>, artists |-> <<>>])

IsFit == user_artists_matrix # None

RowCount == user_artists_matrix.shape[1]

\* the last call was recommend on a Fit engine with 0 <= user_id < row-count
RecommendInRange ==
    /\ ret.op = "recommend"
    /\ IsFit
    /\ 0 <= ret.user_id
    /\ ret.user_id < RowCount

Descending(scores) ==
    \A i \in DOMAIN scores, j \in DOMAIN scores : i < j => scores[i] >= scores[j]

\* the catalog read as a mapping keyed by id: the last row carrying the id
LastRow(df, artist_id) ==
    Max({i \in DOMAIN df.index : df.index[i] = artist_id})

RECURSIVE SumWeights(_, _)
SumWeights(rows, I) ==
    IF I = {} THEN 0
    ELSE LET i == CHOOSE x \in I : TRUE
         IN rows[i].weight + SumWeights(rows, I \ {i})

----------------------------------------------------------------------------
(* Properties *)

\* C1: a recommend issued before the first fit call fails with NotFittedError,
\* and once a fit call has completed the engine is never Unfit again: no
\* later recommend fails with NotFittedError.
C1_UnfitUntilFitThenNeverAgain ==
    /\ (ret.op = "recommend" /\ ~fit_called) => ret.out = NotFittedError
    /\ fit_completed =>
          /\ IsFit
          /\ ret.op = "recommend" => ret.out # NotFittedError

C1_Witness ==
    /\ fit_completed
    /\ ret.op = "recommend"
    /\ ret.out.kind = "return"
    /\ ret.out.value.artists # <<>>

\* C2: on a Fit engine, recommend fails with OutOfRangeError whenever
\* user_id >= row-count or user_id < 0, for every n.
C2_OutOfRangeRaises ==
    (/\ ret.op = "recommend"
     /\ IsFit
     /\ (ret.user_id >= RowCount \/ ret.user_id < 0))
    => ret.out = OutOfRangeError

\* C3: on a Fit engine with an in-range user_id, a failure of the
\* collaborator's scoring is not propagated: recommend returns the empty
\* result, and the engine's matrix and trained state are left as they were.
C3_ScoringFailureIsSoft ==
    /\ [](RecommendInRange /\ ret.scored.kind = "raise" => ret.out = EmptyResult)
    /\ [][ret'.op = "recommend" =>
            /\ user_artists_matrix' = user_artists_matrix
            /\ implicit_model' = implicit_model]_vars

C3_Witness ==
    /\ RecommendInRange
    /\ ret.scored.kind = "raise"
    /\ ret.out = EmptyResult
    /\ fit_completed

\* C4: on a Fit engine with an in-range user_id, when scoring succeeds with
\* at least one candidate and the catalog is not loaded, the NotLoadedError
\* of the lookup reaches the caller of recommend.
C4_NotLoadedSurfaces ==
    (/\ RecommendInRange
     /\ ret.scored.kind = "return"
     /\ Len(ret.scored.value.ids) >= 1
     /\ artists_df = None)
    => ret.out = NotLoadedError

\* C5: on a Fit engine with an in-range user_id, recommend with n <= 0
\* returns the empty result, whatever the collaborator returns or raises.
C5_NonPositiveNIsEmpty ==
    (RecommendInRange /\ ret.n <= 0) => ret.out = EmptyResult

\* C6: resolve before any completed load fails with NotLoadedError; after a
\* load, a present id resolves to exactly its name and an absent id to the
\* placeholder embedding the id, never raising.
C6_ResolveContract ==
    ret.op = "get_artist_name_from_id" =>
        IF artists_df = None
        THEN ret.out = NotLoadedError
        ELSE IF ret.artist_id \in Range(artists_df.index)
        THEN ret.out =
               Return(Str(artists_df.name[LastRow(artists_df, ret.artist_id)]))
        ELSE ret.out = Return(Placeholder(ret.artist_id))

\* C7: for an interactions file with at least one row, load returns a matrix
\* of max user id + 1 rows and max artist id + 1 columns whose cell [u][a] is
\* the sum of the weights of the rows with that pair.
C7_MatrixIsSumOfRows ==
    (/\ ret.op = "load_user_artists"
     /\ user_artists_file.exists
     /\ {"userID", "artistID", "weight"} \subseteq user_artists_file.columns
     /\ Len(user_artists_file.rows) >= 1)
    => LET rows == user_artists_file.rows
           nu == Max({rows[i].userID : i \in DOMAIN rows}) + 1
           na == Max({rows[i].artistID : i \in DOMAIN rows}) + 1
       IN /\ ret.out.kind = "return"
          /\ ret.out.value.shape = <<nu, na>>
          /\ Len(ret.out.value.cells) = nu
          /\ \A u \in 0..(nu - 1) : Len(ret.out.value.cells[u + 1]) = na
          /\ \A u \in 0..(nu - 1), a \in 0..(na - 1) :
                ret.out.value.cells[u + 1][a + 1] =
                    SumWeights(rows, {i \in DOMAIN rows :
                                        rows[i].userID = u /\ rows[i].artistID = a})

C7_Witness ==
    /\ ret.op = "load_user_artists"
    /\ ret.out.kind = "return"
    /\ \E i \in DOMAIN user_artists_file.rows, j \in DOMAIN user_artists_file.rows :
          LET r == user_artists_file.rows[i]
              q == user_artists_file.rows[j]
          IN /\ i < j
             /\ r.userID = q.userID /\ r.artistID = q.artistID
             /\ r.weight > 0 /\ q.weight > 0
             /\ ret.out.value.cells[r.userID + 1][r.artistID + 1] = r.weight + q.weight

\* C8: when an artist id is carried by more than one row of the file,
\* resolve of that id returns the later row's name, as text.
C8_LastRowWins ==
    (/\ ret.op = "get_artist_name_from_id"
     /\ artists_df # None
     /\ Cardinality({i \in DOMAIN artists_df.index :
                        artists_df.index[i] = ret.artist_id}) > 1)
    => ret.out = Return(Str(artists_df.name[LastRow(artists_df, ret.artist_id)]))

C10_MatrixMatchesTrainedState ==
    /\ user_artists_matrix = implicit_model
    /\ (ret.op = "recommend" /\ ~fit_completed) => ret.out = NotFittedError

====
